---- MODULE Spec2Model ----
(***************************************************************************)
(* State-machine model of src/fix_status.py: a one-shot script that loads  *)
(* cmd/tmux-intray/status.go, appends an import line after every line that *)
(* contains the cmd import, rewrites six literal index expressions with    *)
(* re.sub, and writes the result back over the same path.                  *)
(*                                                                         *)
(* Text is a sequence of tokens; each token is a fixed piece of text and a *)
(* text denotes the concatenation of its tokens.  The tokens are cut so    *)
(* that, in any concatenation of them, every occurrence of one of the six  *)
(* patterns and of the anchor starts and ends on a token boundary:         *)
(*   - "le" arises only from the token "l" followed by the token           *)
(*     "en(fields) <= " (every other "l" is followed by "d", "i" or "/");  *)
(*   - a lower-case "f" followed by "ields[" arises only from "fields[";   *)
(*   - a double quote occurs only in the anchor and in the inserted line,  *)
(*     and neither is a piece of the other;                                *)
(*   - "\n" and "\r" are tokens of their own.                              *)
(* So matching on tokens is matching on characters for these texts.        *)
(***************************************************************************)
EXTENDS Integers, Sequences, FiniteSets, TLC

\* ---------------------------------------------------------------- tokens
NL == "\n"
CR == "\r"
L == "l"
EN == "en(fields) <= "
FB == "fields["
RB == "]"
D8 == "8"
D5 == "5"
D3 == "3"
D4 == "4"
LEVE == "storage.FieldLeve"
PANE == "storage.FieldPane"
SESSION == "storage.FieldSession"
WINDOW == "storage.FieldWindow"

\* line 11: the anchor substring, with its quotes
ANCHOR == "\"github.com/cristianoliveira/tmux-intray/cmd\""

\* line 12: the appended line, "\t\"...internal/storage\"\n"
INSERTED_LINE == << "\t\"github.com/cristianoliveira/tmux-intray/internal/storage\"", NL >>

\* Mutant: the first rule names the wrong constant, storage.FieldPane.
RULES_WrongConstant ==
  << [pattern |-> <<L, EN, D8>>,  repl |-> <<L, EN, PANE>>],
     [pattern |-> <<FB, D8, RB>>, repl |-> <<FB, LEVE, L, RB>>],
     [pattern |-> <<L, EN, D5>>,  repl |-> <<L, EN, PANE>>],
     [pattern |-> <<FB, D3, RB>>, repl |-> <<FB, SESSION, RB>>],
     [pattern |-> <<FB, D4, RB>>, repl |-> <<FB, WINDOW, RB>>],
     [pattern |-> <<FB, D5, RB>>, repl |-> <<FB, PANE, RB>>] >>

\* lines 16-21: the (pattern, replacement) pairs, in the order of the calls.
\* "storage.FieldLevel" is LEVE followed by L: its last letter starts "len(".
RULES ==
  << [pattern |-> <<L, EN, D8>>,  repl |-> <<L, EN, LEVE, L>>],
     [pattern |-> <<FB, D8, RB>>, repl |-> <<FB, LEVE, L, RB>>],
     [pattern |-> <<L, EN, D5>>,  repl |-> <<L, EN, PANE>>],
     [pattern |-> <<FB, D3, RB>>, repl |-> <<FB, SESSION, RB>>],
     [pattern |-> <<FB, D4, RB>>, repl |-> <<FB, WINDOW, RB>>],
     [pattern |-> <<FB, D5, RB>>, repl |-> <<FB, PANE, RB>>] >>

NumRules == Len(RULES)

\* ---------------------------------------------------------------- bounds
MaxChunks == 3
MaxExternal == 1

\* The pieces initial file contents are built from.
InputChunks ==
  { <<ANCHOR>>, <<NL>>, <<CR>>, <<L>>, <<EN, D8>>, <<EN, D5>>,
    <<FB, D8, RB>>, <<FB, D3, RB>>, <<FB, D4, RB>>, <<FB, D5, RB>> }

RECURSIVE TextsOf(_)
TextsOf(n) ==
  IF n = 0 THEN { <<>> }
  ELSE LET S == TextsOf(n - 1) IN S \cup { c \o t : c \in InputChunks, t \in S }

InputTexts == TextsOf(MaxChunks)

\* What another process may put in the file behind the tool's back.
ExternalTexts == { <<>>, <<ANCHOR, NL>>, <<FB, D3, RB, NL>> }

\* ------------------------------------------------------- pure functions
IsPrefix(s, t) == Len(s) <= Len(t) /\ SubSeq(t, 1, Len(s)) = s

\* Whether text t has p as a contiguous piece.
Occurs(p, t) ==
  \E k \in 0..(Len(t) - Len(p)) : SubSeq(t, k + 1, k + Len(p)) = p

\* open(..., 'r'): universal newlines, "\r\n" and "\r" are read as "\n".
RECURSIVE TranslateNewlines(_)
TranslateNewlines(t) ==
  IF t = <<>> THEN <<>>
  ELSE IF Head(t) = CR
       THEN IF Len(t) >= 2 /\ t[2] = NL
            THEN <<NL>> \o TranslateNewlines(SubSeq(t, 3, Len(t)))
            ELSE <<NL>> \o TranslateNewlines(Tail(t))
       ELSE <<Head(t)>> \o TranslateNewlines(Tail(t))

\* f.readlines() on translated text: each line keeps its "\n"; the last
\* line has none when the text does not end with one.  cur is the line
\* being collected.
RECURSIVE SplitLines(_, _)
SplitLines(t, cur) ==
  IF t = <<>> THEN (IF cur = <<>> THEN <<>> ELSE <<cur>>)
  ELSE IF Head(t) = NL
       THEN <<Append(cur, NL)>> \o SplitLines(Tail(t), <<>>)
       ELSE SplitLines(Tail(t), Append(cur, Head(t)))

ReadLines(data) == SplitLines(TranslateNewlines(data), <<>>)

\* line 11: '"github.com/cristianoliveira/tmux-intray/cmd"' in line
HasAnchor(line) == \E j \in 1..Len(line) : line[j] = ANCHOR

\* line 15: ''.join(new_lines)
RECURSIVE Join(_)
Join(ls) == IF ls = <<>> THEN <<>> ELSE Head(ls) \o Join(Tail(ls))

\* Mutant: only the first match is replaced (count=1).
RECURSIVE reSubFirstOnly(_, _, _)
reSubFirstOnly(p, r, t) ==
  IF Len(t) < Len(p) THEN t
  ELSE IF SubSeq(t, 1, Len(p)) = p
       THEN r \o SubSeq(t, Len(p) + 1, Len(t))
       ELSE <<Head(t)>> \o reSubFirstOnly(p, r, Tail(t))

\* re.sub(pattern, repl, text): every non-overlapping match, leftmost
\* first; replaced text is not scanned again.
RECURSIVE reSub(_, _, _)
reSub(p, r, t) ==
  IF Len(t) < Len(p) THEN t
  ELSE IF SubSeq(t, 1, Len(p)) = p
       THEN r \o reSub(p, r, SubSeq(t, Len(p) + 1, Len(t)))
       ELSE <<Head(t)>> \o reSub(p, r, Tail(t))

\* A write of chunk at offset at: it replaces what was there and leaves the
\* rest of the file as it was.
WriteAt(data, at, chunk) ==
  SubSeq(data, 1, at) \o chunk \o SubSeq(data, at + Len(chunk) + 1, Len(data))

\* open(..., 'w') on POSIX: "\n" is written as os.linesep, which is "\n".
WriteEncode(t) == t

\* lines 8-12 as a whole: the list the loop builds from ls.
RECURSIVE Inject(_)
Inject(ls) ==
  IF ls = <<>> THEN <<>>
  ELSE (IF HasAnchor(Head(ls)) THEN << Head(ls), INSERTED_LINE >> ELSE << Head(ls) >>)
       \o Inject(Tail(ls))

\* lines 16-21 as a whole, for any list of rules: each call's result is the
\* next call's text.
RECURSIVE RewriteWith(_, _)
RewriteWith(rules, t) ==
  IF rules = <<>> THEN t
  ELSE RewriteWith(Tail(rules), reSub(Head(rules).pattern, Head(rules).repl, t))

Rewrite(t) == RewriteWith(RULES, t)

\* lines 4-24 as a whole: the content a run leaves for a file holding data.
Pipeline(data) == WriteEncode(Rewrite(Join(Inject(ReadLines(data)))))

\* ----------------------------------------------------------------- state
VARIABLES
  fileExists,  \* whether cmd/tmux-intray/status.go exists
  fs,          \* its content on disk
  pc,          \* the run's position
  lines,       \* line 5
  i,           \* the loop of line 9: index of the next line
  new_lines,   \* line 8
  content,     \* line 15
  ruleIdx,     \* how many of the re.sub calls of lines 16-21 have run
  hist,        \* history: the positions the run went through
  pos,         \* line 24: the file offset of the handle opened for writing
  orig,        \* history: the file content when the run started
  origExists,  \* history: whether the file existed when the run started
  second,      \* history: whether this is a second run on a first run's output
  ext          \* history: external writes so far

vars == << fileExists, fs, pc, lines, i, new_lines, content, ruleIdx, pos, hist, orig, origExists, second, ext >>

Init ==
  /\ \/ fileExists = TRUE /\ fs \in InputTexts
     \/ fileExists = FALSE /\ fs = <<>>
  /\ pc = "Start"
  /\ lines = <<>>
  /\ i = 1
  /\ new_lines = <<>>
  /\ content = <<>>
  /\ ruleIdx = 0
  /\ hist = <<"Start">>
  /\ pos = 0
  /\ orig = fs
  /\ origExists = fileExists
  /\ second = FALSE
  /\ ext = 0

Goto(p) == pc' = p /\ hist' = Append(hist, p)

\* The process is gone: so is everything it held in memory.
Forget ==
  lines' = <<>> /\ i' = 1 /\ new_lines' = <<>> /\ content' = <<>> /\ ruleIdx' = 0 /\ pos' = 0

\* lines 4-5
Load ==
  /\ pc = "Start"
  /\ fileExists
  /\ lines' = ReadLines(fs)
  /\ Goto("Loaded")
  /\ UNCHANGED << fileExists, fs, i, new_lines, content, ruleIdx, pos, orig, origExists, second, ext >>

\* Mutant: the file is opened in a mode that creates it when missing.
LoadCreatesFile ==
  /\ pc = "Start"
  /\ ~fileExists
  /\ fileExists' = TRUE
  /\ lines' = <<>>
  /\ Goto("Loaded")
  /\ UNCHANGED << fs, i, new_lines, content, ruleIdx, pos, orig, origExists, second, ext >>

\* line 4: FileNotFoundError
LoadNotFound ==
  /\ pc = "Start"
  /\ ~fileExists
  /\ Goto("NotFoundError")
  /\ UNCHANGED << fileExists, fs, lines, i, new_lines, content, ruleIdx, pos, orig, origExists, second, ext >>

\* lines 4-5: any other failure of open or read
LoadIOError ==
  /\ pc = "Start"
  /\ fileExists
  /\ Goto("IOError")
  /\ UNCHANGED << fileExists, fs, lines, i, new_lines, content, ruleIdx, pos, orig, origExists, second, ext >>

\* Mutant: the line is inserted after the first match only.
InjectStepFirstOnly ==
  /\ pc = "Loaded"
  /\ i <= Len(lines)
  /\ new_lines' = IF HasAnchor(lines[i])
                      /\ ~\E j \in 1..Len(new_lines) : new_lines[j] = INSERTED_LINE
                  THEN Append(Append(new_lines, lines[i]), INSERTED_LINE)
                  ELSE Append(new_lines, lines[i])
  /\ i' = i + 1
  /\ UNCHANGED << fileExists, fs, pc, lines, content, ruleIdx, hist, pos, orig, origExists, second, ext >>

\* lines 9-12: one iteration of the loop
InjectStep ==
  /\ pc = "Loaded"
  /\ i <= Len(lines)
  /\ new_lines' = IF HasAnchor(lines[i])
                  THEN Append(Append(new_lines, lines[i]), INSERTED_LINE)
                  ELSE Append(new_lines, lines[i])
  /\ i' = i + 1
  /\ UNCHANGED << fileExists, fs, pc, lines, content, ruleIdx, hist, pos, orig, origExists, second, ext >>

\* line 9: the loop is exhausted
InjectDone ==
  /\ pc = "Loaded"
  /\ i > Len(lines)
  /\ Goto("Injected")
  /\ UNCHANGED << fileExists, fs, lines, i, new_lines, content, ruleIdx, pos, orig, origExists, second, ext >>

\* line 15
JoinLines ==
  /\ pc = "Injected"
  /\ content' = Join(new_lines)
  /\ Goto("Joined")
  /\ UNCHANGED << fileExists, fs, lines, i, new_lines, ruleIdx, pos, orig, origExists, second, ext >>

\* Mutant: the last re.sub call is missing.
ApplyRuleDropsLast ==
  /\ pc = "Joined"
  /\ ruleIdx < NumRules - 1
  /\ content' = reSub(RULES[ruleIdx + 1].pattern, RULES[ruleIdx + 1].repl, content)
  /\ ruleIdx' = ruleIdx + 1
  /\ IF ruleIdx + 1 = NumRules - 1 THEN Goto("Rewritten") ELSE UNCHANGED << pc, hist >>
  /\ UNCHANGED << fileExists, fs, lines, i, new_lines, pos, orig, origExists, second, ext >>

\* lines 16-21: the next re.sub call
ApplyRule ==
  /\ pc = "Joined"
  /\ ruleIdx < NumRules
  /\ content' = reSub(RULES[ruleIdx + 1].pattern, RULES[ruleIdx + 1].repl, content)
  /\ ruleIdx' = ruleIdx + 1
  /\ IF ruleIdx + 1 = NumRules THEN Goto("Rewritten") ELSE UNCHANGED << pc, hist >>
  /\ UNCHANGED << fileExists, fs, lines, i, new_lines, pos, orig, origExists, second, ext >>

\* Mutant: the file is opened for writing before the rules are applied.
OpenWriteBeforeRewrite ==
  /\ pc = "Joined"
  /\ fs' = <<>>
  /\ pos' = 0
  /\ Goto("Writing")
  /\ UNCHANGED << fileExists, lines, i, new_lines, content, ruleIdx, orig, origExists, second, ext >>

\* Mutant: the file is opened without truncation (mode 'r+').
OpenWriteNoTruncate ==
  /\ pc = "Rewritten"
  /\ pos' = 0
  /\ Goto("Writing")
  /\ UNCHANGED << fileExists, fs, lines, i, new_lines, content, ruleIdx, orig, origExists, second, ext >>

\* line 23: open(..., 'w') truncates the file; the offset is 0
OpenWrite ==
  /\ pc = "Rewritten"
  /\ fs' = <<>>
  /\ pos' = 0
  /\ Goto("Writing")
  /\ UNCHANGED << fileExists, lines, i, new_lines, content, ruleIdx, orig, origExists, second, ext >>

\* line 23: open(..., 'w') fails
OpenWriteFail ==
  /\ pc = "Rewritten"
  /\ Goto("IOError")
  /\ Forget
  /\ UNCHANGED << fileExists, fs, orig, origExists, second, ext >>

\* line 24: part of the text reaches the file, at the handle's offset
Flush ==
  /\ pc = "Writing"
  /\ \E k \in (pos + 1)..(Len(WriteEncode(content)) - 1) :
        /\ fs' = WriteAt(fs, pos, SubSeq(WriteEncode(content), pos + 1, k))
        /\ pos' = k
  /\ UNCHANGED << fileExists, pc, lines, i, new_lines, content, ruleIdx, hist, orig, origExists, second, ext >>

\* Mutant: the file is closed without the buffered rest being flushed.
CloseWithoutFlush ==
  /\ pc = "Writing"
  /\ Goto("Written")
  /\ UNCHANGED << fileExists, fs, lines, i, new_lines, content, ruleIdx, pos, orig, origExists, second, ext >>

\* lines 23-24: the with block ends, the rest is flushed and the file closed
Close ==
  /\ pc = "Writing"
  /\ fs' = WriteAt(fs, pos, SubSeq(WriteEncode(content), pos + 1, Len(WriteEncode(content))))
  /\ pos' = Len(WriteEncode(content))
  /\ Goto("Written")
  /\ UNCHANGED << fileExists, lines, i, new_lines, content, ruleIdx, orig, origExists, second, ext >>

\* line 24: the write fails
WriteFail ==
  /\ pc = "Writing"
  /\ Goto("IOError")
  /\ Forget
  /\ UNCHANGED << fileExists, fs, orig, origExists, second, ext >>

\* end of the script
Exit ==
  /\ pc = "Written"
  /\ Goto("Done")
  /\ Forget
  /\ UNCHANGED << fileExists, fs, orig, origExists, second, ext >>

Running == { "Start", "Loaded", "Injected", "Joined", "Rewritten", "Writing", "Written" }

\* the process stops (kill, power loss)
Kill ==
  /\ pc \in Running
  /\ Goto("Killed")
  /\ Forget
  /\ UNCHANGED << fileExists, fs, orig, origExists, second, ext >>

\* the script is run again on the file a first run left
Rerun ==
  /\ pc = "Done"
  /\ ~second
  /\ second' = TRUE
  /\ pc' = "Start"
  /\ hist' = <<"Start">>
  /\ orig' = fs
  /\ UNCHANGED << fileExists, fs, lines, i, new_lines, content, ruleIdx, pos, origExists, ext >>

\* another process replaces the file's content between load and write
ExternalWrite ==
  /\ pc \in { "Loaded", "Injected", "Joined", "Rewritten" }
  /\ ext < MaxExternal
  /\ \E t \in ExternalTexts : fs' = t
  /\ ext' = ext + 1
  /\ UNCHANGED << fileExists, pc, lines, i, new_lines, content, ruleIdx, hist, pos, orig, origExists, second >>

Next ==
  \/ Load \/ LoadNotFound \/ LoadIOError
  \/ InjectStep \/ InjectDone
  \/ JoinLines \/ ApplyRule
  \/ OpenWrite \/ OpenWriteFail \/ Flush \/ Close \/ WriteFail
  \/ Exit \/ Kill

Spec == Init /\ [][Next]_vars

NextRerun == Next \/ Rerun
SpecRerun == Init /\ [][NextRerun]_vars

NextShared == Next \/ ExternalWrite
SpecShared == Init /\ [][NextShared]_vars

\* ---------------------------------------------------------------- claims

\* The number of lines among the first j of ls that contain the anchor.
MatchesIn(ls, j) == Cardinality({ m \in 1..j : HasAnchor(ls[m]) })

\* C1: once the loop is done, for n input lines of which k contain the
\* anchor, new_lines has n + k elements; input line j sits at position
\* j + (matching lines before j), so the input lines keep their order; each
\* matching line is immediately followed by the inserted line; these are all
\* n + k positions, so nothing else is inserted; for k = 0 the output is the
\* input.
C1_InjectorInsertsAfterEachMatch ==
  pc \in { "Injected", "Joined", "Rewritten", "Writing", "Written" } =>
    LET n == Len(lines)
        k == MatchesIn(lines, n)
    IN /\ Len(new_lines) = n + k
       /\ \A j \in 1..n :
            LET p == j + MatchesIn(lines, j - 1)
            IN /\ new_lines[p] = lines[j]
               /\ HasAnchor(lines[j]) => new_lines[p + 1] = INSERTED_LINE
       /\ k = 0 => new_lines = lines

C1_Witness ==
  /\ pc = "Injected"
  /\ MatchesIn(lines, Len(lines)) = 2
  /\ Len(new_lines) = Len(lines) + 2

\* C2: when the path does not exist at the start, the run goes from Start
\* to NotFoundError and nowhere else (or is stopped at Start), the file is
\* never created and never written.
C2_MissingFileAbortsUntouched ==
  ~origExists =>
    /\ hist \in { <<"Start">>, <<"Start", "NotFoundError">>, <<"Start", "Killed">> }
    /\ ~fileExists
    /\ fs = orig
    /\ pos = 0

C2_Witness == ~origExists /\ pc = "NotFoundError" /\ ~fileExists

\* C3: when the write has finished, the file holds exactly the text got by
\* joining the injected lines of the original content and folding the six
\* rules over it in their order, and nothing else.
C3_FinalContentIsFoldOfRules ==
  pc \in { "Written", "Done" } =>
    fs = RewriteWith(RULES, Join(Inject(ReadLines(orig))))

C3_Witness ==
  /\ pc = "Done"
  /\ orig = << FB, D5, RB, CR, ANCHOR >>
  /\ fs = << FB, PANE, RB, NL, ANCHOR >> \o INSERTED_LINE

\* `len(fields) <= 8` immediately followed by `en(fields) <= 8`: the "l" that
\* ends storage.FieldLevel then starts a new `len(fields) <= 8`.
SelfFeeding == << L, EN, D8, EN, D8 >>

\* C4 as stated: the six-rule rewrite, applied to its own output, changes
\* nothing, for every text.
C4_RewriteIdempotent ==
  pc = "Rewritten" => Rewrite(content) = content

\* C4 amended: the rewrite applied to its own output changes nothing for
\* every text that does not contain `len(fields) <= 8` immediately followed
\* by `en(fields) <= 8`; for a text that does, it changes the text again.
C4_RewriteIdempotentUnlessSelfFeeding ==
  pc = "Rewritten" =>
    (Rewrite(content) = content <=> ~Occurs(SelfFeeding, Join(new_lines)))

C4_Witness ==
  /\ pc = "Rewritten"
  /\ Occurs(<< L, EN, D8 >>, Join(new_lines))
  /\ ~Occurs(SelfFeeding, Join(new_lines))
  /\ content # Join(new_lines)
  /\ Rewrite(content) = content

\* The rule list with rules a and b swapped.
SwapRules(rs, a, b) ==
  [ j \in 1..Len(rs) |-> IF j = a THEN rs[b] ELSE IF j = b THEN rs[a] ELSE rs[j] ]

\* `len(fields) <= 8` immediately followed by `en(fields) <= 5`.
FeedsThird == << L, EN, D8, EN, D5 >>

\* C6: rule order matters: for every text that contains `len(fields) <= 8`
\* immediately followed by `en(fields) <= 5`, the list with its first and
\* third rules swapped gives a final text different from the one the list
\* in its own order gives.
C6_OrderSensitive ==
  (pc = "Rewritten" /\ Occurs(FeedsThird, Join(new_lines))) =>
    content # RewriteWith(SwapRules(RULES, 1, 3), Join(new_lines))

C6_Witness ==
  /\ pc = "Rewritten"
  /\ Join(new_lines) = FeedsThird
  /\ content = << L, EN, LEVE, L, EN, PANE >>
  /\ RewriteWith(SwapRules(RULES, 1, 3), Join(new_lines)) = << L, EN, LEVE, L, EN, D5 >>

StageOrder ==
  << "Start", "Loaded", "Injected", "Joined", "Rewritten", "Writing", "Written", "Done" >>

Failures == { "NotFoundError", "IOError", "Killed" }

\* Whether the run has opened the file for writing.
WriteBegun == \E j \in 1..Len(hist) : hist[j] = "Writing"

\* C7: the positions of a run are a prefix of the stage order, in that
\* order, each once, ended at most by one failure; the file is opened for
\* writing only with all six rules applied; and as long as the file has
\* not been opened for writing, failed runs included, it holds its original
\* content.
C7_LinearAndFileUntouchedBeforeWrite ==
  /\ \E n \in 1..Len(StageOrder) :
        \/ hist = SubSeq(StageOrder, 1, n)
        \/ \E f \in Failures : hist = Append(SubSeq(StageOrder, 1, n), f)
  /\ pc = "Writing" => ruleIdx = NumRules
  /\ ~WriteBegun => (fs = orig /\ fileExists = origExists)

C7_Witness ==
  /\ pc = "Done"
  /\ hist = StageOrder
  /\ fs # orig

\* C8 as stated: once the write step is reached, the file holds the whole
\* original text or the whole final text at every point, also when the
\* write fails or the process stops.
C8_AllOrNothing ==
  WriteBegun => (fs = orig \/ fs = Pipeline(orig))

\* C8 amended: the write is not all-or-nothing: opening the file for
\* writing empties it, and from then on, also when the write fails or the
\* process stops, the file holds a prefix of the final text (empty, partial
\* or whole); it holds the whole final text once the write has finished.
C8_PrefixOfFinalDuringWrite ==
  WriteBegun =>
    /\ IsPrefix(fs, Pipeline(orig))
    /\ (pc = "Writing" /\ pos = 0) => fs = <<>>
    /\ pc \in { "Written", "Done" } => fs = Pipeline(orig)

C8_Witness ==
  /\ pc = "Killed"
  /\ WriteBegun
  /\ fs # <<>>
  /\ fs # orig
  /\ fs # Pipeline(orig)
  /\ IsPrefix(fs, Pipeline(orig))

\* C9: when another process has replaced the file's content after the load
\* and before the write, the run still reaches Written and Done, and the
\* file then holds the transform of the content as loaded.
C9_ExternalChangeLost ==
  (ext > 0 /\ pc \in { "Written", "Done" }) => fs = Pipeline(orig)

C9_Witness ==
  /\ ext > 0
  /\ pc = "Done"
  /\ hist = StageOrder
  /\ \A t \in ExternalTexts : fs # Pipeline(t) /\ fs # t

\* What C10 says of the final text, for the list ls the loop built.
KeepsInjection(ls, text) ==
  LET fl == SplitLines(text, <<>>)
  IN /\ Len(fl) = Len(ls)
     /\ \A j \in 1..Len(ls) : HasAnchor(fl[j]) <=> HasAnchor(ls[j])
     /\ \A j \in 1..Len(ls) :
          HasAnchor(ls[j]) => (j + 1 <= Len(fl) /\ fl[j + 1] = INSERTED_LINE)
     /\ \A j \in 1..Len(ls) : ls[j] = INSERTED_LINE => fl[j] = INSERTED_LINE

EndsWithNewline(line) == line # <<>> /\ line[Len(line)] = NL

C10_HoldsWhenAnchorLinesAreTerminated ==
  (/\ pc = "Rewritten"
   /\ lines # <<>> =>
        (EndsWithNewline(lines[Len(lines)]) \/ ~HasAnchor(lines[Len(lines)])))
  => KeepsInjection(new_lines, content)

MergedLine(line) ==
  \E a, b \in 1..Len(line) : line[a] = ANCHOR /\ line[b] = INSERTED_LINE[1]

C5_HoldsWhenNoMergedLine ==
  (/\ second
   /\ pc = "Written"
   /\ MatchesIn(lines, Len(lines)) >= 1
   /\ \A j \in 1..Len(lines) : ~MergedLine(lines[j]))
  => LET out == ReadLines(fs)
     IN /\ Len(out) = Len(lines) + MatchesIn(lines, Len(lines))
        /\ fs # orig
        /\ \A j \in 1..Len(out) :
             HasAnchor(out[j]) =>
               /\ j + 2 <= Len(out)
               /\ out[j + 1] = INSERTED_LINE
               /\ out[j + 2] = INSERTED_LINE

====
